---------------------------- MODULE Spec2Model ----------------------------
(***************************************************************************)
(* Model of server.VerifyAttestation (src/server/verify.go): the remote-   *)
(* attestation verifier of go-tpm-tools.  One call is a small state        *)
(* machine                                                                 *)
(*   Start -> AkDecoded -> AkTrusted -> SigningAlgChecked                  *)
(*         -> (VerifyQuote -> Replay -> CheckPcrAlg)* -> Verified | Failed *)
(* over caller-owned inputs.  The variables are functions over the calls   *)
(* in flight, so that one call (Spec) and two concurrent calls (SpecConc)  *)
(* share the same actions.                                                 *)
(***************************************************************************)
EXTENDS Integers, Sequences, FiniteSets, TLC

(***************************************************************************)
(* Bounds of the model.                                                    *)
(***************************************************************************)
\* Longest quote list an attestation carries.
MaxQuotes == 2
\* Longest quote list handed to the Quote Selector on its own.
MaxSelQuotes == 3
\* Longest list of trusted keys handed to the Trust Oracle on its own.
MaxTrustedAKs == 2

(***************************************************************************)
(* Algorithm identifiers of the TPM_ALG_ID registry (package tpm2).        *)
(***************************************************************************)
AlgSHA1 == 4
AlgSHA256 == 11
AlgSHA384 == 12
AlgSHA512 == 13
AlgNull == 16
AlgRSA == 1
AlgKeyedHash == 8
AlgECC == 35

\* The value the package initialises supportedHashAlgs with.
SupportedHashAlgsInit == <<AlgSHA512, AlgSHA384, AlgSHA256>>

\* Bank algorithms an attester may send: the policy's and one outside it.
QuoteAlgs == {AlgSHA512, AlgSHA384, AlgSHA256, AlgSHA1}

(***************************************************************************)
(* Values.                                                                 *)
(***************************************************************************)
NoError == [msg |-> "", cause |-> ""]
NoState == [hash |-> 0, events |-> <<>>]
NoKey == [family |-> "none", id |-> 0]
NoPublic == [Type |-> 0, Unique |-> 0, SignHash |-> 0]

\* fmt.Errorf("msg: %w", cause) and fmt.Errorf("msg"): the message and the
\* text of the wrapped error.
Errorf(msg, cause) == [msg |-> msg, cause |-> cause]
ErrorText(e) == IF e.cause = "" THEN e.msg ELSE e.msg \o ": " \o e.cause

RsaKey(n) == [family |-> "rsa", id |-> n]
EcdsaKey(n) == [family |-> "ecdsa", id |-> n]

(***************************************************************************)
(* External capabilities, modelled from their contracts (spec 1, 4.4, 4.5).*)
(***************************************************************************)
\* tpm2.DecodePublic: the encoded public area is the sequence
\* <<type, unique, signing hash>>; anything else does not decode.
DecodePublic(b) ==
  IF Len(b) = 3 /\ b[1] \in {AlgRSA, AlgECC, AlgKeyedHash}
  THEN [val |-> [Type |-> b[1], Unique |-> b[2], SignHash |-> b[3]],
        err |-> NoError]
  ELSE [val |-> NoPublic, err |-> Errorf("decoding TPMT_PUBLIC", "")]

\* tpm2.Public.Key: only RSA and ECC areas carry a public key.
PublicKey(area) ==
  IF area.Type = AlgRSA THEN [val |-> RsaKey(area.Unique), err |-> NoError]
  ELSE IF area.Type = AlgECC
       THEN [val |-> EcdsaKey(area.Unique), err |-> NoError]
       ELSE [val |-> NoKey, err |-> Errorf("unsupported public key type", "")]

\* internal.GetSigningHashAlg: the hash of the key's signing scheme; a key
\* with a null scheme has none.
GetSigningHashAlg(area) ==
  IF area.Type \in {AlgRSA, AlgECC} /\ area.SignHash # AlgNull
  THEN [val |-> area.SignHash, err |-> NoError]
  ELSE [val |-> 0, err |-> Errorf("unsupported null signing scheme", "")]

\* internal.VerifyQuote (spec 4.4): signature, marker and structure, digest
\* of the PCR bank, nonce; the first failing check names the error.
VerifyQuote(quote, key, nonce) ==
  IF quote.rawSig # key THEN Errorf("signature", "")
  ELSE IF ~quote.quote.magic THEN Errorf("malformed-quote", "")
  ELSE IF quote.quote.pcrDigest # quote.pcrs.pcrs
       THEN Errorf("integrity-mismatch", "")
  ELSE IF quote.quote.extraData # nonce THEN Errorf("freshness", "")
  ELSE NoError

\* One PCR extend with the bank's algorithm (a small stand-in digest).
Extend(alg, reg, e) == (reg * 3 + e + alg) % 17

RECURSIVE ReplayFrom(_, _, _)
ReplayFrom(alg, reg, events) ==
  IF events = <<>> THEN reg
  ELSE ReplayFrom(alg, Extend(alg, reg, Head(events)), Tail(events))

\* ParseAndReplayEventLog (spec 4.5): a log entry 0 does not parse; the
\* replayed register must equal the bank's claimed digest.
ParseAndReplayEventLog(eventLog, pcrs) ==
  IF \E i \in 1..Len(eventLog) : eventLog[i] = 0
  THEN [val |-> NoState, err |-> Errorf("malformed-log", "")]
  ELSE IF ReplayFrom(pcrs.hash, 0, eventLog) # pcrs.pcrs
       THEN [val |-> NoState, err |-> Errorf("replay-mismatch", "")]
       ELSE [val |-> [hash |-> pcrs.hash, events |-> eventLog],
             err |-> NoError]

\* The error kinds of spec 7, read off the message the code builds.
ErrorKind(e) ==
  CASE e.msg = "failed to decode AK public area" -> "DecodeError"
    [] e.msg = "failed to get AK public key" -> "DecodeError"
    [] e.msg = "bad AK public area" -> "DecodeError"
    [] e.msg = "no mechanism for AK verification provided" -> "UntrustedKey"
    [] e.msg = "AK public key is not trusted" -> "UntrustedKey"
    [] e.msg = "in AK public area" -> "UnsupportedSigningAlgorithm"
    [] e.msg = "failed to verify quote" -> "QuoteVerificationFailed"
    [] e.msg = "failed to validate the event log" -> "ReplayFailed"
    [] e.msg = "when verifying PCRs" -> "UnsupportedPcrAlgorithm"
    [] e.msg = "attestation does not contain a supported quote"
         -> "NoAcceptableQuote"
    [] OTHER -> "None"


(***************************************************************************)
(* State.                                                                  *)
(***************************************************************************)
VARIABLES
  supportedHashAlgs, \* the package-level policy list
  attestation,       \* per call: [akPub, quotes, eventLog]
  opts,              \* per call: [Nonce, TrustedAKs]
  pc,                \* per call: where the call stands
  akPubArea,         \* per call: local akPubArea
  akPubKey,          \* per call: local akPubKey
  signHashAlg,       \* per call: local signHashAlg
  out,               \* per call: the slice the loop ranges over
  idx,               \* per call: position of the loop in out
  lastErr,           \* per call: local lastErr
  state,             \* per call: local state of the loop body
  ret,               \* per call: the returned pair [state, err]
  hist               \* per call: the capability calls made, in order

vars == <<supportedHashAlgs, attestation, opts, pc, akPubArea, akPubKey,
          signHashAlg, out, idx, lastErr, state, ret, hist>>

locals == <<akPubArea, akPubKey, signHashAlg, out, idx, lastErr, state>>

Calls == DOMAIN pc

(***************************************************************************)
(* Helpers of verify.go.                                                   *)
(***************************************************************************)
\* A public key of a type the switch of pubKeysEqual has no case for.
OtherKey(n) == [family |-> "ed25519", id |-> n]

\* Mutant: every key type is compared through its own Equal.
pubKeysEqualAnyType(k1, k2) == k2.family = k1.family /\ k2.id = k1.id

\* Mutant: the key material is compared without regard to the key's type.
pubKeysEqualIgnoresFamily(k1, k2) == k2.id = k1.id

\* rsa.PublicKey.Equal / ecdsa.PublicKey.Equal behind a type switch on k1.
pubKeysEqual(k1, k2) ==
  CASE k1.family = "rsa" -> k2.family = "rsa" /\ k2.id = k1.id
    [] k1.family = "ecdsa" -> k2.family = "ecdsa" /\ k2.id = k1.id
    [] OTHER -> FALSE

\* Mutant: no length check, and an empty trust set accepts the key.
checkAkTrustedEmptyAccepts(ak, o) ==
  IF Len(o.TrustedAKs) = 0
       \/ \E i \in 1..Len(o.TrustedAKs) : pubKeysEqual(ak, o.TrustedAKs[i])
  THEN NoError
  ELSE Errorf("AK public key is not trusted", "")

checkAkTrusted(ak, o) ==
  IF Len(o.TrustedAKs) = 0
  THEN Errorf("no mechanism for AK verification provided", "")
  ELSE IF \E i \in 1..Len(o.TrustedAKs) : pubKeysEqual(ak, o.TrustedAKs[i])
       THEN NoError
       ELSE Errorf("AK public key is not trusted", "")

\* Mutant: the function falls off its loop into a nil return.
checkHashAlgSupportedAcceptsAll(hash, o) == NoError

checkHashAlgSupported(hash, o) ==
  IF \E i \in 1..Len(supportedHashAlgs) : hash = supportedHashAlgs[i]
  THEN NoError
  ELSE Errorf("unsupported hash algorithm", ToString(hash))

\* Mutant: the scan does not stop at the first match, so the last one wins.
LastWithHash(quotes, alg) ==
  IF \E i \in 1..Len(quotes) : quotes[i].pcrs.hash = alg
  THEN CHOOSE i \in 1..Len(quotes) :
         /\ quotes[i].pcrs.hash = alg
         /\ \A j \in (i + 1)..Len(quotes) : quotes[j].pcrs.hash # alg
  ELSE 0

\* Index of the first quote of the bank algorithm alg, 0 when there is none.
FirstWithHash(quotes, alg) ==
  IF \E i \in 1..Len(quotes) : quotes[i].pcrs.hash = alg
  THEN CHOOSE i \in 1..Len(quotes) :
         /\ quotes[i].pcrs.hash = alg
         /\ \A j \in 1..(i - 1) : quotes[j].pcrs.hash # alg
  ELSE 0

RECURSIVE supportedQuotesFrom(_, _)
supportedQuotesFrom(quotes, algs) ==
  IF algs = <<>> THEN <<>>
  ELSE LET i == FirstWithHash(quotes, Head(algs))
       IN (IF i = 0 THEN <<>> ELSE <<quotes[i]>>)
            \o supportedQuotesFrom(quotes, Tail(algs))

\* Mutant: the quotes are handed on as received, unfiltered and unordered.
supportedQuotesUnfiltered(quotes) == quotes

\* Mutant: the candidates come in the reverse of the preference order.
supportedQuotesReversed(quotes) ==
  supportedQuotesFrom(quotes,
                      [i \in 1..Len(supportedHashAlgs) |->
                         supportedHashAlgs[Len(supportedHashAlgs) + 1 - i]])

\* Mutant: the inner loop does not stop at the first match, so every quote
\* of a policy algorithm is a candidate.
supportedQuotesNoBreak(quotes) ==
  LET all(alg) == SelectSeq(quotes, LAMBDA q : q.pcrs.hash = alg)
  IN all(supportedHashAlgs[1]) \o all(supportedHashAlgs[2])
       \o all(supportedHashAlgs[3])

supportedQuotes(quotes) == supportedQuotesFrom(quotes, supportedHashAlgs)

(***************************************************************************)
(* Inputs.                                                                 *)
(***************************************************************************)
RefKey == RsaKey(1)
RefNonce == <<1, 2>>
RefLog == <<1, 2>>

\* A quote of bank algorithm a that the reference key signed over the
\* reference nonce and whose bank is the replay of the reference log.
RefQuote(a) ==
  LET d == ReplayFrom(a, 0, RefLog)
  IN [quote |-> [magic |-> TRUE, pcrDigest |-> d, extraData |-> RefNonce],
      rawSig |-> RefKey,
      pcrs |-> [hash |-> a, pcrs |-> d]]

BadSig(q) == [q EXCEPT !.rawSig = RsaKey(2)]
BadMagic(q) == [q EXCEPT !.quote.magic = FALSE]
BadDigest(q) == [q EXCEPT !.quote.pcrDigest = (@ + 1) % 17]
BadNonce(q) == [q EXCEPT !.quote.extraData = <<1, 3>>]
BadBank(q) == [q EXCEPT !.quote.pcrDigest = (@ + 1) % 17,
                        !.pcrs.pcrs = (@ + 1) % 17]

QuoteSamples ==
  {RefQuote(a) : a \in QuoteAlgs}
    \cup {BadNonce(RefQuote(a)) : a \in QuoteAlgs}
    \cup {BadSig(RefQuote(a)) : a \in {AlgSHA512, AlgSHA384, AlgSHA256}}
    \cup {BadBank(RefQuote(a)) : a \in {AlgSHA512, AlgSHA384, AlgSHA256}}
    \cup {BadMagic(RefQuote(AlgSHA512)), BadDigest(RefQuote(AlgSHA384))}

QuoteLists == UNION {[1..n -> QuoteSamples] : n \in 0..MaxQuotes}

AkPubSamples ==
  {<<>>, <<AlgKeyedHash, 1, AlgSHA256>>, <<AlgRSA, 1, AlgSHA256>>,
   <<AlgRSA, 1, AlgSHA1>>, <<AlgRSA, 1, AlgNull>>, <<AlgECC, 1, AlgSHA256>>}

TrustedSamples ==
  {<<>>, <<RsaKey(1)>>, <<EcdsaKey(1)>>, <<EcdsaKey(1), RsaKey(1)>>}

LogSamples == {RefLog, <<2, 1>>, <<1, 0>>}

Attestations ==
  [akPub : AkPubSamples, quotes : QuoteLists, eventLog : LogSamples]

Options == [Nonce : {RefNonce, <<1, 3>>}, TrustedAKs : TrustedSamples]

(***************************************************************************)
(* VerifyAttestation as one function of its arguments: what a call that    *)
(* runs from entry to return on its own yields.                            *)
(***************************************************************************)
RECURSIVE tryQuotes(_, _, _, _, _)
tryQuotes(cands, key, att, o, last) ==
  IF cands = <<>>
  THEN IF last # NoError
       THEN [state |-> NoState, err |-> last]
       ELSE [state |-> NoState,
             err |-> Errorf("attestation does not contain a supported quote", "")]
  ELSE LET q == Head(cands)
           v == VerifyQuote(q, key, o.Nonce)
           r == ParseAndReplayEventLog(att.eventLog, q.pcrs)
           p == checkHashAlgSupported(q.pcrs.hash, o)
       IN IF v # NoError
          THEN tryQuotes(Tail(cands), key, att, o,
                         Errorf("failed to verify quote", ErrorText(v)))
          ELSE IF r.err # NoError
          THEN tryQuotes(Tail(cands), key, att, o,
                         Errorf("failed to validate the event log",
                                ErrorText(r.err)))
          ELSE IF p # NoError
          THEN [state |-> NoState,
                err |-> Errorf("when verifying PCRs", ErrorText(p))]
          ELSE [state |-> r.val, err |-> NoError]

VerifyAttestation(att, o) ==
  LET d == DecodePublic(att.akPub)
      k == PublicKey(d.val)
      t == checkAkTrusted(k.val, o)
      h == GetSigningHashAlg(d.val)
      s == checkHashAlgSupported(h.val, o)
      fail(e) == [state |-> NoState, err |-> e]
  IN IF d.err # NoError
     THEN fail(Errorf("failed to decode AK public area", ErrorText(d.err)))
     ELSE IF k.err # NoError
     THEN fail(Errorf("failed to get AK public key", ErrorText(k.err)))
     ELSE IF t # NoError THEN fail(t)
     ELSE IF h.err # NoError
     THEN fail(Errorf("bad AK public area", ErrorText(h.err)))
     ELSE IF s # NoError
     THEN fail(Errorf("in AK public area", ErrorText(s)))
     ELSE tryQuotes(supportedQuotes(att.quotes), k.val, att, o, NoError)

(***************************************************************************)
(* VerifyAttestation, one step at a time.                                  *)
(***************************************************************************)
Return(c, st, e) ==
  /\ pc' = [pc EXCEPT ![c] = IF e = NoError THEN "Verified" ELSE "Failed"]
  /\ ret' = [ret EXCEPT ![c] = [state |-> st, err |-> e]]

Goto(c, label) ==
  /\ pc' = [pc EXCEPT ![c] = label]
  /\ ret' = ret

\* continue / fall out of the range loop.
NextQuote(c) ==
  /\ idx' = [idx EXCEPT ![c] = @ + 1]
  /\ Goto(c, IF idx[c] < Len(out[c]) THEN "TryQuote" ELSE "LoopDone")

Log(c, op) ==
  hist' = [hist EXCEPT ![c] = Append(@, [op |-> op, quote |-> out[c][idx[c]]])]

\* Lines 42-49: decode the AK public area and take its public key.
DecodeAk(c) ==
  /\ pc[c] = "Start"
  /\ LET d == DecodePublic(attestation[c].akPub)
         k == PublicKey(d.val)
     IN IF d.err # NoError
        THEN /\ Return(c, NoState,
                       Errorf("failed to decode AK public area", ErrorText(d.err)))
             /\ UNCHANGED <<akPubArea, akPubKey>>
        ELSE IF k.err # NoError
        THEN /\ Return(c, NoState,
                       Errorf("failed to get AK public key", ErrorText(k.err)))
             /\ akPubArea' = [akPubArea EXCEPT ![c] = d.val]
             /\ UNCHANGED akPubKey
        ELSE /\ Goto(c, "AkDecoded")
             /\ akPubArea' = [akPubArea EXCEPT ![c] = d.val]
             /\ akPubKey' = [akPubKey EXCEPT ![c] = k.val]
  /\ UNCHANGED <<supportedHashAlgs, attestation, opts, signHashAlg, out, idx,
                 lastErr, state, hist>>

\* Lines 50-52: the trust check.
CheckAkTrusted(c) ==
  /\ pc[c] = "AkDecoded"
  /\ LET err == checkAkTrusted(akPubKey[c], opts[c])
     IN IF err # NoError
        THEN Return(c, NoState, err)
        ELSE Goto(c, "AkTrusted")
  /\ UNCHANGED <<supportedHashAlgs, attestation, opts, locals, hist>>

\* Mutant: an unsupported signing algorithm is recorded like a soft failure
\* and the call goes on to the quotes.
CheckSigningAlgSoft(c) ==
  /\ pc[c] = "AkTrusted"
  /\ LET h == GetSigningHashAlg(akPubArea[c])
         err == checkHashAlgSupported(h.val, opts[c])
     IN IF h.err # NoError
        THEN /\ Return(c, NoState,
                       Errorf("bad AK public area", ErrorText(h.err)))
             /\ UNCHANGED <<signHashAlg, lastErr>>
        ELSE /\ signHashAlg' = [signHashAlg EXCEPT ![c] = h.val]
             /\ lastErr' = [lastErr EXCEPT ![c] =
                              IF err # NoError
                              THEN Errorf("in AK public area", ErrorText(err))
                              ELSE @]
             /\ Goto(c, "SigningAlgChecked")
  /\ UNCHANGED <<supportedHashAlgs, attestation, opts, akPubArea, akPubKey,
                 out, idx, state, hist>>

\* Lines 55-61: the signing hash algorithm and its policy check.
CheckSigningAlg(c) ==
  /\ pc[c] = "AkTrusted"
  /\ LET h == GetSigningHashAlg(akPubArea[c])
         err == checkHashAlgSupported(h.val, opts[c])
     IN IF h.err # NoError
        THEN /\ Return(c, NoState,
                       Errorf("bad AK public area", ErrorText(h.err)))
             /\ UNCHANGED signHashAlg
        ELSE /\ signHashAlg' = [signHashAlg EXCEPT ![c] = h.val]
             /\ IF err # NoError
                THEN Return(c, NoState,
                            Errorf("in AK public area", ErrorText(err)))
                ELSE Goto(c, "SigningAlgChecked")
  /\ UNCHANGED <<supportedHashAlgs, attestation, opts, akPubArea, akPubKey,
                 out, idx, lastErr, state, hist>>

\* Mutant: supportedQuotes fills one package-level slice that every call
\* ranges over.
SelectQuotesSharedBuffer(c) ==
  /\ pc[c] = "SigningAlgChecked"
  /\ out' = [d \in Calls |-> supportedQuotes(attestation[c].quotes)]
  /\ idx' = [idx EXCEPT ![c] = 1]
  /\ Goto(c, IF Len(out'[c]) > 0 THEN "TryQuote" ELSE "LoopDone")
  /\ UNCHANGED <<supportedHashAlgs, attestation, opts, akPubArea, akPubKey,
                 signHashAlg, lastErr, state, hist>>

\* Line 65: the range expression, evaluated once.
SelectQuotes(c) ==
  /\ pc[c] = "SigningAlgChecked"
  /\ out' = [out EXCEPT ![c] = supportedQuotes(attestation[c].quotes)]
  /\ idx' = [idx EXCEPT ![c] = 1]
  /\ Goto(c, IF Len(out'[c]) > 0 THEN "TryQuote" ELSE "LoopDone")
  /\ UNCHANGED <<supportedHashAlgs, attestation, opts, akPubArea, akPubKey,
                 signHashAlg, lastErr, state, hist>>

\* Mutant: a quote that fails verification ends the call (return, not
\* continue).
VerifyQuoteStepFatal(c) ==
  /\ pc[c] = "TryQuote"
  /\ Log(c, "VerifyQuote")
  /\ LET err == VerifyQuote(out[c][idx[c]], akPubKey[c], opts[c].Nonce)
     IN IF err # NoError
        THEN Return(c, NoState,
                    Errorf("failed to verify quote", ErrorText(err)))
        ELSE Goto(c, "Replay")
  /\ UNCHANGED <<supportedHashAlgs, attestation, opts, locals>>

\* Mutant: lastErr keeps the first soft failure instead of the last.
VerifyQuoteStepKeepsFirst(c) ==
  /\ pc[c] = "TryQuote"
  /\ Log(c, "VerifyQuote")
  /\ LET err == VerifyQuote(out[c][idx[c]], akPubKey[c], opts[c].Nonce)
     IN IF err # NoError
        THEN /\ lastErr' = [lastErr EXCEPT ![c] =
                              IF @ = NoError
                              THEN Errorf("failed to verify quote",
                                          ErrorText(err))
                              ELSE @]
             /\ NextQuote(c)
        ELSE /\ Goto(c, "Replay")
             /\ UNCHANGED <<lastErr, idx>>
  /\ UNCHANGED <<supportedHashAlgs, attestation, opts, akPubArea, akPubKey,
                 signHashAlg, out, state>>

\* Mutant: the result of VerifyQuote is dropped.
VerifyQuoteStepIgnoresError(c) ==
  /\ pc[c] = "TryQuote"
  /\ Log(c, "VerifyQuote")
  /\ Goto(c, "Replay")
  /\ UNCHANGED <<supportedHashAlgs, attestation, opts, locals>>

\* Mutant: the bank's algorithm is checked right after the quote verified,
\* ahead of the replay.
VerifyQuoteStepThenPolicy(c) ==
  /\ pc[c] = "TryQuote"
  /\ Log(c, "VerifyQuote")
  /\ LET err == VerifyQuote(out[c][idx[c]], akPubKey[c], opts[c].Nonce)
     IN IF err # NoError
        THEN /\ lastErr' = [lastErr EXCEPT ![c] =
                              Errorf("failed to verify quote", ErrorText(err))]
             /\ NextQuote(c)
        ELSE /\ Goto(c, "CheckPcrAlg")
             /\ UNCHANGED <<lastErr, idx>>
  /\ UNCHANGED <<supportedHashAlgs, attestation, opts, akPubArea, akPubKey,
                 signHashAlg, out, state>>

\* Lines 67-70: verify the quote; a failure is recorded and the loop goes on.
VerifyQuoteStep(c) ==
  /\ pc[c] = "TryQuote"
  /\ Log(c, "VerifyQuote")
  /\ LET err == VerifyQuote(out[c][idx[c]], akPubKey[c], opts[c].Nonce)
     IN IF err # NoError
        THEN /\ lastErr' = [lastErr EXCEPT ![c] =
                              Errorf("failed to verify quote", ErrorText(err))]
             /\ NextQuote(c)
        ELSE /\ Goto(c, "Replay")
             /\ UNCHANGED <<lastErr, idx>>
  /\ UNCHANGED <<supportedHashAlgs, attestation, opts, akPubArea, akPubKey,
                 signHashAlg, out, state>>

\* Mutant: the continue after a failed replay is missing.
ReplayStepNoContinue(c) ==
  /\ pc[c] = "Replay"
  /\ Log(c, "Replay")
  /\ LET r == ParseAndReplayEventLog(attestation[c].eventLog,
                                     out[c][idx[c]].pcrs)
     IN /\ lastErr' = [lastErr EXCEPT ![c] =
                         IF r.err # NoError
                         THEN Errorf("failed to validate the event log",
                                     ErrorText(r.err))
                         ELSE @]
        /\ state' = [state EXCEPT ![c] = r.val]
        /\ Goto(c, "CheckPcrAlg")
        /\ UNCHANGED idx
  /\ UNCHANGED <<supportedHashAlgs, attestation, opts, akPubArea, akPubKey,
                 signHashAlg, out>>

\* Mutant: after a failed replay the same candidate is tried again.
ReplayStepRetries(c) ==
  /\ pc[c] = "Replay"
  /\ Log(c, "Replay")
  /\ LET r == ParseAndReplayEventLog(attestation[c].eventLog,
                                     out[c][idx[c]].pcrs)
     IN IF r.err # NoError
        THEN /\ lastErr' = [lastErr EXCEPT ![c] =
                              Errorf("failed to validate the event log",
                                     ErrorText(r.err))]
             /\ Goto(c, IF Len(hist[c]) < 8 THEN "TryQuote" ELSE "LoopDone")
             /\ UNCHANGED <<state, idx>>
        ELSE /\ state' = [state EXCEPT ![c] = r.val]
             /\ Goto(c, "CheckPcrAlg")
             /\ UNCHANGED <<lastErr, idx>>
  /\ UNCHANGED <<supportedHashAlgs, attestation, opts, akPubArea, akPubKey,
                 signHashAlg, out>>

\* Lines 73-78: replay the event log against the quote's PCR bank.
ReplayStep(c) ==
  /\ pc[c] = "Replay"
  /\ Log(c, "Replay")
  /\ LET r == ParseAndReplayEventLog(attestation[c].eventLog,
                                     out[c][idx[c]].pcrs)
     IN IF r.err # NoError
        THEN /\ lastErr' = [lastErr EXCEPT ![c] =
                              Errorf("failed to validate the event log",
                                     ErrorText(r.err))]
             /\ NextQuote(c)
             /\ UNCHANGED state
        ELSE /\ state' = [state EXCEPT ![c] = r.val]
             /\ Goto(c, "CheckPcrAlg")
             /\ UNCHANGED <<lastErr, idx>>
  /\ UNCHANGED <<supportedHashAlgs, attestation, opts, akPubArea, akPubKey,
                 signHashAlg, out>>

\* Lines 81-86: the bank's algorithm against the policy, then success.
CheckPcrAlg(c) ==
  /\ pc[c] = "CheckPcrAlg"
  /\ Log(c, "CheckPcrAlg")
  /\ LET err == checkHashAlgSupported(out[c][idx[c]].pcrs.hash, opts[c])
     IN IF err # NoError
        THEN Return(c, NoState, Errorf("when verifying PCRs", ErrorText(err)))
        ELSE Return(c, state[c], NoError)
  /\ UNCHANGED <<supportedHashAlgs, attestation, opts, locals>>

\* Lines 89-92: every candidate failed softly, or there was none.
Finish(c) ==
  /\ pc[c] = "LoopDone"
  /\ IF lastErr[c] # NoError
     THEN Return(c, NoState, lastErr[c])
     ELSE Return(c, NoState,
                 Errorf("attestation does not contain a supported quote", ""))
  /\ UNCHANGED <<supportedHashAlgs, attestation, opts, locals, hist>>

Next ==
  \/ \E c \in Calls : DecodeAk(c)
  \/ \E c \in Calls : CheckAkTrusted(c)
  \/ \E c \in Calls : CheckSigningAlg(c)
  \/ \E c \in Calls : SelectQuotes(c)
  \/ \E c \in Calls : VerifyQuoteStep(c)
  \/ \E c \in Calls : ReplayStep(c)
  \/ \E c \in Calls : CheckPcrAlg(c)
  \/ \E c \in Calls : Finish(c)

InitCalls(cs, atts, os) ==
  /\ supportedHashAlgs = SupportedHashAlgsInit
  /\ attestation \in [cs -> atts]
  /\ opts \in [cs -> os]
  /\ pc = [c \in cs |-> "Start"]
  /\ akPubArea = [c \in cs |-> NoPublic]
  /\ akPubKey = [c \in cs |-> NoKey]
  /\ signHashAlg = [c \in cs |-> 0]
  /\ out = [c \in cs |-> <<>>]
  /\ idx = [c \in cs |-> 0]
  /\ lastErr = [c \in cs |-> NoError]
  /\ state = [c \in cs |-> NoState]
  /\ ret = [c \in cs |-> [state |-> NoState, err |-> NoError]]
  /\ hist = [c \in cs |-> <<>>]

\* One call of VerifyAttestation.
Init == InitCalls({1}, Attestations, Options)

Spec == Init /\ [][Next]_vars

\* One call that keeps running: a call in progress is never suspended for
\* good, the function neither blocks nor waits.
FairAttestations ==
  [akPub : AkPubSamples, quotes : QuoteLists, eventLog : {RefLog, <<1, 0>>}]

FairOptions == [Nonce : {RefNonce}, TrustedAKs : TrustedSamples]

InitFair == InitCalls({1}, FairAttestations, FairOptions)

FairSpec == InitFair /\ [][Next]_vars /\ WF_vars(Next)

\* Two calls in flight at once, each with its own arguments; their steps
\* interleave in every order.
ConcQuoteSamples ==
  {RefQuote(AlgSHA256), BadNonce(RefQuote(AlgSHA512)),
   BadBank(RefQuote(AlgSHA384))}

ConcAttestations ==
  [akPub : {<<>>, <<AlgRSA, 1, AlgSHA256>>},
   quotes : UNION {[1..n -> ConcQuoteSamples] : n \in 0..MaxQuotes},
   eventLog : {RefLog}]

ConcOptions == [Nonce : {RefNonce}, TrustedAKs : {<<>>, <<RsaKey(1)>>}]

InitConc == InitCalls({1, 2}, ConcAttestations, ConcOptions)

SpecConc == InitConc /\ [][Next]_vars

\* One call whose AK pre-checks pass, over longer quote lists: the inputs of
\* the Quote Selector.
SelAttestations ==
  [akPub : {<<AlgRSA, 1, AlgSHA256>>},
   quotes : UNION {[1..n -> QuoteSamples] : n \in 0..MaxSelQuotes},
   eventLog : {RefLog}]

SelOptions == [Nonce : {RefNonce}, TrustedAKs : {<<RsaKey(1)>>}]

InitSel == InitCalls({1}, SelAttestations, SelOptions)

SpecSel == InitSel /\ [][Next]_vars

\* checkAkTrusted on its own: a caller holds any public key and any list of
\* trusted keys, and the only step is the trust check.
KeySamples ==
  {RsaKey(1), RsaKey(2), EcdsaKey(1), EcdsaKey(2), OtherKey(1), OtherKey(2)}

TrustedLists == UNION {[1..n -> KeySamples] : n \in 0..MaxTrustedAKs}

InitTrust ==
  /\ supportedHashAlgs = SupportedHashAlgsInit
  /\ attestation = [c \in {1} |->
                      [akPub |-> <<>>, quotes |-> <<>>, eventLog |-> <<>>]]
  /\ opts \in [{1} -> [Nonce : {RefNonce}, TrustedAKs : TrustedLists]]
  /\ pc = [c \in {1} |-> "AkDecoded"]
  /\ akPubArea = [c \in {1} |-> NoPublic]
  /\ akPubKey \in [{1} -> KeySamples]
  /\ signHashAlg = [c \in {1} |-> 0]
  /\ out = [c \in {1} |-> <<>>]
  /\ idx = [c \in {1} |-> 0]
  /\ lastErr = [c \in {1} |-> NoError]
  /\ state = [c \in {1} |-> NoState]
  /\ ret = [c \in {1} |-> [state |-> NoState, err |-> NoError]]
  /\ hist = [c \in {1} |-> <<>>]

NextTrust == \E c \in Calls : CheckAkTrusted(c)

SpecTrust == InitTrust /\ [][NextTrust]_vars

\* The same call over the longer quote lists, kept running.
FairSpecSel == InitSel /\ [][Next]_vars /\ WF_vars(Next)

\* The stepwise call returns what the function does.
StepwiseMatchesFunction ==
  \A c \in Calls :
    pc[c] \in {"Verified", "Failed"}
      => ret[c] = VerifyAttestation(attestation[c], opts[c])


(***************************************************************************)
(* Vocabulary of the properties.                                           *)
(***************************************************************************)
PolicyAlgs == {AlgSHA512, AlgSHA384, AlgSHA256}

Done(c) == pc[c] \in {"Verified", "Failed"}

\* What the AK public area of call c decodes to.
AkArea(c) == DecodePublic(attestation[c].akPub)
AkKey(c) == PublicKey(AkArea(c).val)
AkSignHash(c) == GetSigningHashAlg(AkArea(c).val)

AkYieldsKey(c) == AkArea(c).err = NoError /\ AkKey(c).err = NoError

\* The decoded key is one of the caller's trusted keys.
AkInTrustedSet(c) ==
  /\ AkYieldsKey(c)
  /\ \E i \in 1..Len(opts[c].TrustedAKs) : opts[c].TrustedAKs[i] = AkKey(c).val

AkSignHashInPolicy(c) ==
  AkSignHash(c).err = NoError /\ AkSignHash(c).val \in PolicyAlgs

PreChecksPass(c) == AkInTrustedSet(c) /\ AkSignHashInPolicy(c)

\* Quote q passes the Single-Quote Verifier / Log Replay in call c.
Verifies(c, q) == VerifyQuote(q, AkKey(c).val, opts[c].Nonce) = NoError
Replays(c, q) ==
  ParseAndReplayEventLog(attestation[c].eventLog, q.pcrs).err = NoError
ReplayedState(c, q) ==
  ParseAndReplayEventLog(attestation[c].eventLog, q.pcrs).val

QuotesOf(c) ==
  {attestation[c].quotes[i] : i \in 1..Len(attestation[c].quotes)}

(***************************************************************************)
(* C1: a call returns a MachineState only when, in that call, the AK       *)
(* decoded, is in the trusted set, signs with a policy hash, and the state *)
(* is the replay of the bank of a quote of the attestation that passed the *)
(* Single-Quote Verifier with the caller's nonce and whose bank algorithm  *)
(* is in the policy; every other return is a nil state with an error, and  *)
(* nothing is exposed before the return.                                   *)
(***************************************************************************)
C1_StateOnlyWhenVerified ==
  \A c \in Calls :
    /\ ret[c].state # NoState =>
         /\ pc[c] = "Verified"
         /\ PreChecksPass(c)
         /\ \E q \in QuotesOf(c) :
              /\ Verifies(c, q)
              /\ q.pcrs.hash \in PolicyAlgs
              /\ Replays(c, q)
              /\ ret[c].state = ReplayedState(c, q)
    /\ pc[c] = "Verified" => ret[c].state # NoState /\ ret[c].err = NoError
    /\ pc[c] = "Failed" => ret[c].state = NoState /\ ret[c].err # NoError
    /\ ~Done(c) => ret[c].state = NoState /\ ret[c].err = NoError

C1_Witness ==
  \E c \in Calls : pc[c] = "Verified" /\ ret[c].state # NoState

(***************************************************************************)
(* C2: when the AK is not one of the trusted keys, the call fails with     *)
(* UntrustedKey whatever the quotes, the log and the nonce are, and no     *)
(* quote is examined.                                                      *)
(***************************************************************************)
C2_UntrustedAkFails ==
  \A c \in Calls :
    (Done(c) /\ AkYieldsKey(c) /\ ~AkInTrustedSet(c))
      => /\ pc[c] = "Failed"
         /\ ErrorKind(ret[c].err) = "UntrustedKey"
         /\ hist[c] = <<>>

\* An untrusted AK, a non-empty trust set and a quote that would verify
\* and replay under that AK.
C2_Witness ==
  \E c \in Calls :
    /\ Done(c) /\ AkYieldsKey(c) /\ ~AkInTrustedSet(c)
    /\ Len(opts[c].TrustedAKs) > 0
    /\ \E q \in QuotesOf(c) :
         Verifies(c, q) /\ Replays(c, q) /\ q.pcrs.hash \in PolicyAlgs

(***************************************************************************)
(* C3 as stated: an empty trusted set makes the call fail with             *)
(* UntrustedKey whatever the other inputs, the AK public area included.    *)
(***************************************************************************)
C3_Original ==
  \A c \in Calls :
    (Done(c) /\ Len(opts[c].TrustedAKs) = 0)
      => ErrorKind(ret[c].err) = "UntrustedKey"

(***************************************************************************)
(* C3 amended: an empty trusted set never accepts a key: the call fails,   *)
(* with UntrustedKey when the AK public area yields a public key (whatever *)
(* the quotes, log and nonce) and with DecodeError when it does not; no    *)
(* quote is examined.                                                      *)
(***************************************************************************)
C3_EmptyTrustSetFails ==
  \A c \in Calls :
    (Done(c) /\ Len(opts[c].TrustedAKs) = 0)
      => /\ pc[c] = "Failed"
         /\ hist[c] = <<>>
         /\ ErrorKind(ret[c].err) =
              IF AkYieldsKey(c) THEN "UntrustedKey" ELSE "DecodeError"

\* An empty trust set, a well-formed AK and a quote that would verify.
C3_Witness ==
  \E c \in Calls :
    /\ Done(c) /\ Len(opts[c].TrustedAKs) = 0 /\ AkYieldsKey(c)
    /\ AkSignHashInPolicy(c)
    /\ \E q \in QuotesOf(c) :
         Verifies(c, q) /\ Replays(c, q) /\ q.pcrs.hash \in PolicyAlgs

(***************************************************************************)
(* C4 as stated: whenever the AK's signing hash algorithm is outside the   *)
(* policy list the call fails with UnsupportedSigningAlgorithm.            *)
(***************************************************************************)
C4_Original ==
  \A c \in Calls :
    (Done(c) /\ AkArea(c).err = NoError /\ AkSignHash(c).err = NoError
       /\ AkSignHash(c).val \notin PolicyAlgs)
      => ErrorKind(ret[c].err) = "UnsupportedSigningAlgorithm"

(***************************************************************************)
(* C4 amended: when the AK is trusted and its signing hash algorithm is    *)
(* outside the policy list, the call fails with                            *)
(* UnsupportedSigningAlgorithm and examines no quote, even if quotes would *)
(* verify; an untrusted AK fails with UntrustedKey first.                  *)
(***************************************************************************)
C4_UnsupportedSigningAlgFails ==
  \A c \in Calls :
    (Done(c) /\ AkYieldsKey(c) /\ AkSignHash(c).err = NoError
       /\ AkSignHash(c).val \notin PolicyAlgs)
      => /\ pc[c] = "Failed"
         /\ hist[c] = <<>>
         /\ ErrorKind(ret[c].err) =
              IF AkInTrustedSet(c) THEN "UnsupportedSigningAlgorithm"
              ELSE "UntrustedKey"

\* A trusted AK signing with SHA-1 and a quote that would verify.
C4_Witness ==
  \E c \in Calls :
    /\ Done(c) /\ AkInTrustedSet(c) /\ AkSignHash(c).err = NoError
    /\ AkSignHash(c).val \notin PolicyAlgs
    /\ \E q \in QuotesOf(c) :
         Verifies(c, q) /\ Replays(c, q) /\ q.pcrs.hash \in PolicyAlgs

(***************************************************************************)
(* Vocabulary of the candidate loop.                                       *)
(***************************************************************************)
\* Position of a policy algorithm in the preference order (1 = preferred).
Pref(a) == CHOOSE i \in 1..3 : <<AlgSHA512, AlgSHA384, AlgSHA256>>[i] = a

\* The first quote of the input with bank algorithm a.
HasQuote(c, a) == \E q \in QuotesOf(c) : q.pcrs.hash = a
FirstQuote(c, a) ==
  LET qs == attestation[c].quotes
      i == CHOOSE i \in 1..Len(qs) :
             /\ qs[i].pcrs.hash = a
             /\ \A j \in 1..(i - 1) : qs[j].pcrs.hash # a
  IN qs[i]

\* The policy algorithms the attestation has a quote for.
Selected(c) == {a \in PolicyAlgs : HasQuote(c, a)}

SoftFails(c, q) == ~Verifies(c, q) \/ ~Replays(c, q)

\* The error the loop records for a candidate that fails softly.
SoftError(c, q) ==
  IF ~Verifies(c, q)
  THEN Errorf("failed to verify quote",
              ErrorText(VerifyQuote(q, AkKey(c).val, opts[c].Nonce)))
  ELSE Errorf("failed to validate the event log",
              ErrorText(ParseAndReplayEventLog(attestation[c].eventLog,
                                               q.pcrs).err))

\* The quotes handed to capability op so far.
HandedSet(c, op) ==
  {hist[c][i].quote : i \in {j \in 1..Len(hist[c]) : hist[c][j].op = op}}

(***************************************************************************)
(* C5 as stated: a quote that passes the Single-Quote Verifier and whose   *)
(* bank replays, but whose bank algorithm is not in the policy, makes the  *)
(* call fail with UnsupportedPcrAlgorithm.                                 *)
(***************************************************************************)
C5_Original ==
  \A c \in Calls :
    (Done(c) /\ PreChecksPass(c)
       /\ \E q \in QuotesOf(c) :
            q.pcrs.hash \notin PolicyAlgs /\ Verifies(c, q) /\ Replays(c, q))
      => ErrorKind(ret[c].err) = "UnsupportedPcrAlgorithm"

(***************************************************************************)
(* C5 amended: a quote whose bank algorithm is not in the policy is        *)
(* dropped by the Quote Selector: it is never verified, replayed or        *)
(* policy-checked, no call returns UnsupportedPcrAlgorithm, and the call   *)
(* returns what it returns for the attestation without those quotes        *)
(* (NoAcceptableQuote when no policy-algorithm quote is left).             *)
(***************************************************************************)
C5_UnsupportedBankDropped ==
  \A c \in Calls :
    /\ \A i \in 1..Len(hist[c]) : hist[c][i].quote.pcrs.hash \in PolicyAlgs
    /\ Done(c) =>
         /\ ErrorKind(ret[c].err) # "UnsupportedPcrAlgorithm"
         /\ ret[c] = VerifyAttestation(
                       [attestation[c] EXCEPT !.quotes =
                          SelectSeq(@, LAMBDA q : q.pcrs.hash \in PolicyAlgs)],
                       opts[c])
         /\ (PreChecksPass(c) /\ Selected(c) = {})
              => ErrorKind(ret[c].err) = "NoAcceptableQuote"

\* Pre-checks pass, a SHA-1 quote would verify and replay, and the loop ran
\* on a policy-algorithm quote behind it.
C5_Witness ==
  \E c \in Calls :
    /\ Done(c) /\ PreChecksPass(c)
    /\ Len(attestation[c].quotes) = 2
    /\ LET q == attestation[c].quotes[1]
       IN q.pcrs.hash \notin PolicyAlgs /\ Verifies(c, q) /\ Replays(c, q)
    /\ pc[c] = "Verified"

(***************************************************************************)
(* C6: with the AK pre-checks passed, an attestation of one SHA-512 quote  *)
(* that fails verification or replay and one SHA-256 quote that passes     *)
(* both verifies, with the state replayed against the SHA-256 bank; and in *)
(* every call each candidate whose predecessors in the selected order all  *)
(* failed softly has been tried once the call is over.                     *)
(***************************************************************************)
C6_SoftFailureFallthrough ==
  \A c \in Calls :
    (Done(c) /\ PreChecksPass(c)) =>
      /\ (/\ Len(attestation[c].quotes) = 2
          /\ Selected(c) = {AlgSHA512, AlgSHA256}
          /\ SoftFails(c, FirstQuote(c, AlgSHA512))
          /\ ~SoftFails(c, FirstQuote(c, AlgSHA256)))
           => /\ pc[c] = "Verified"
              /\ ret[c].state = ReplayedState(c, FirstQuote(c, AlgSHA256))
              /\ ret[c].state.hash = AlgSHA256
      /\ \A a \in Selected(c) :
           (\A b \in Selected(c) :
              Pref(b) < Pref(a) => SoftFails(c, FirstQuote(c, b)))
             => FirstQuote(c, a) \in HandedSet(c, "VerifyQuote")

\* The spec's example: SHA-512 with a bad signature, then SHA-256.
C6_Witness ==
  \E c \in Calls :
    /\ pc[c] = "Verified" /\ PreChecksPass(c)
    /\ Len(attestation[c].quotes) = 2
    /\ Selected(c) = {AlgSHA512, AlgSHA256}
    /\ ~Verifies(c, FirstQuote(c, AlgSHA512))
    /\ ret[c].state.hash = AlgSHA256

(***************************************************************************)
(* C7: with the AK pre-checks passed and every selected candidate failing  *)
(* softly, the call returns the one error recorded for the least-preferred *)
(* selected algorithm's quote; with no candidate selected it returns       *)
(* NoAcceptableQuote, and it returns that error in no other situation.     *)
(***************************************************************************)
C7_LastSoftErrorReturned ==
  \A c \in Calls :
    Done(c) =>
      /\ (PreChecksPass(c)
            /\ \A a \in Selected(c) : SoftFails(c, FirstQuote(c, a)))
           => /\ pc[c] = "Failed"
              /\ IF Selected(c) = {}
                 THEN ErrorKind(ret[c].err) = "NoAcceptableQuote"
                 ELSE LET last == CHOOSE a \in Selected(c) :
                                    \A b \in Selected(c) : Pref(b) <= Pref(a)
                      IN ret[c].err = SoftError(c, FirstQuote(c, last))
      /\ ErrorKind(ret[c].err) = "NoAcceptableQuote"
           => PreChecksPass(c) /\ Selected(c) = {}

\* Two candidates failed softly with different errors.
C7_Witness ==
  \E c \in Calls :
    /\ pc[c] = "Failed" /\ PreChecksPass(c)
    /\ Selected(c) = {AlgSHA512, AlgSHA256}
    /\ SoftError(c, FirstQuote(c, AlgSHA512))
         # SoftError(c, FirstQuote(c, AlgSHA256))
    /\ ret[c].err = SoftError(c, FirstQuote(c, AlgSHA256))

(***************************************************************************)
(* C8: the Quote Selector's output is in the policy's preference order     *)
(* (SHA-512, SHA-384, SHA-256), holds at most one quote per algorithm,     *)
(* that quote being the first of the input with that algorithm, holds no   *)
(* quote of an algorithm outside the policy and one for every policy       *)
(* algorithm of the input; selecting again from the same input gives the   *)
(* same list, the policy list never changing.                              *)
(***************************************************************************)
SelectionRan(c) ==
  \/ pc[c] \in {"TryQuote", "Replay", "CheckPcrAlg", "LoopDone"}
  \/ Done(c) /\ PreChecksPass(c)

C8_SelectorOrderDedupFilter ==
  \A c \in Calls :
    SelectionRan(c) =>
      LET o == out[c]
      IN /\ \A i \in 1..Len(o) : o[i].pcrs.hash \in PolicyAlgs
         /\ \A i, j \in 1..Len(o) :
              i < j => Pref(o[i].pcrs.hash) < Pref(o[j].pcrs.hash)
         /\ \A i \in 1..Len(o) : o[i] = FirstQuote(c, o[i].pcrs.hash)
         /\ \A a \in Selected(c) : \E i \in 1..Len(o) : o[i].pcrs.hash = a
         /\ supportedHashAlgs = <<AlgSHA512, AlgSHA384, AlgSHA256>>
         /\ o = supportedQuotes(attestation[c].quotes)

\* Three algorithms received in the reverse of the preference order.
C8_Witness ==
  \E c \in Calls :
    /\ SelectionRan(c)
    /\ Len(out[c]) = 3
    /\ Len(attestation[c].quotes) = 3
    /\ attestation[c].quotes[1].pcrs.hash = AlgSHA256
    /\ attestation[c].quotes[3].pcrs.hash = AlgSHA512
    /\ out[c][1] = attestation[c].quotes[3]

(***************************************************************************)
(* C9: a quote whose extra data differs from opts.Nonce is rejected by the *)
(* Single-Quote Verifier as QuoteVerificationFailed: its bank is never     *)
(* replayed nor policy-checked, the returned state is never its replay,    *)
(* and a call whose only candidate it is fails with                        *)
(* QuoteVerificationFailed.                                                *)
(***************************************************************************)
NonceMismatch(c, q) == q.quote.extraData # opts[c].Nonce

C9_NonceMismatchRejected ==
  \A c \in Calls :
    /\ \A i \in 1..Len(hist[c]) :
         hist[c][i].op \in {"Replay", "CheckPcrAlg"}
           => ~NonceMismatch(c, hist[c][i].quote)
    /\ (hist[c] # <<>> /\ hist[c][Len(hist[c])].op = "VerifyQuote"
          /\ NonceMismatch(c, hist[c][Len(hist[c])].quote))
         => /\ pc[c] # "Replay"
            /\ ErrorKind(lastErr[c]) = "QuoteVerificationFailed"
    /\ pc[c] = "Verified"
         => LET q == hist[c][Len(hist[c])].quote
            IN ~NonceMismatch(c, q) /\ ret[c].state = ReplayedState(c, q)
    /\ (Done(c) /\ PreChecksPass(c)
          /\ \E a \in PolicyAlgs :
               Selected(c) = {a} /\ NonceMismatch(c, FirstQuote(c, a)))
         => /\ pc[c] = "Failed"
            /\ ErrorKind(ret[c].err) = "QuoteVerificationFailed"

\* The only candidate is correctly signed and its bank replays, but its
\* extra data is not the caller's nonce.
C9_Witness ==
  \E c \in Calls :
    /\ pc[c] = "Failed" /\ PreChecksPass(c)
    /\ \E a \in PolicyAlgs :
         /\ Selected(c) = {a}
         /\ NonceMismatch(c, FirstQuote(c, a))
         /\ FirstQuote(c, a).rawSig = AkKey(c).val
         /\ Replays(c, FirstQuote(c, a))
    /\ ErrorKind(ret[c].err) = "QuoteVerificationFailed"

(***************************************************************************)
(* C10: two calls with their own arguments do not interfere: every step    *)
(* writes the state of one call only, reads and never writes the policy    *)
(* list, the attestations and the options, and each call returns what it   *)
(* returns when it runs alone, whatever the interleaving.                  *)
(***************************************************************************)
CallState(c) ==
  <<pc[c], akPubArea[c], akPubKey[c], signHashAlg[c], out[c], idx[c],
    lastErr[c], state[c], ret[c], hist[c]>>

C10_NoInterference ==
  [][/\ supportedHashAlgs' = supportedHashAlgs
     /\ attestation' = attestation
     /\ opts' = opts
     /\ \E c \in Calls :
          \A d \in Calls \ {c} : CallState(d)' = CallState(d)
     /\ \A c \in Calls :
          Done(c)' => ret'[c] = VerifyAttestation(attestation[c], opts[c])
    ]_vars

\* Both calls ran their loops on different attestations and ended
\* differently.
C10_Witness ==
  /\ Calls = {1, 2}
  /\ pc[1] = "Verified" /\ pc[2] = "Failed"
  /\ attestation[1] # attestation[2]
  /\ Len(hist[1]) > 1 /\ Len(hist[2]) > 1

(***************************************************************************)
(* C11: a call only moves along                                            *)
(*   Start -> AkDecoded -> AkTrusted -> SigningAlgChecked -> TryQuote*     *)
(*         -> Verified | Failed;                                           *)
(* a failed decode, trust check or signing-algorithm check goes straight   *)
(* to Failed, so a call whose AK is malformed, untrusted or signs with an  *)
(* unsupported algorithm selects, verifies and replays no quote; Verified  *)
(* and Failed are terminal, and every call ends in one of them.            *)
(***************************************************************************)
\* The loop's positions: the TryQuote states of the spec's state machine.
LoopStates == {"TryQuote", "Replay", "CheckPcrAlg", "LoopDone"}

Transitions ==
  ({<<"Start", "AkDecoded">>, <<"AkDecoded", "AkTrusted">>,
    <<"AkTrusted", "SigningAlgChecked">>, <<"CheckPcrAlg", "Verified">>}
   \cup {<<p, "Failed">> :
           p \in {"Start", "AkDecoded", "AkTrusted", "CheckPcrAlg", "LoopDone"}}
   \cup {<<"SigningAlgChecked", "TryQuote">>,
         <<"SigningAlgChecked", "LoopDone">>, <<"TryQuote", "TryQuote">>,
         <<"TryQuote", "Replay">>, <<"TryQuote", "LoopDone">>,
         <<"Replay", "TryQuote">>, <<"Replay", "CheckPcrAlg">>,
         <<"Replay", "LoopDone">>})

C11_StateMachine ==
  /\ [][\A c \in Calls :
          /\ CallState(c)' # CallState(c) => <<pc[c], pc'[c]>> \in Transitions
          /\ Done(c) => CallState(c)' = CallState(c)
          /\ ~PreChecksPass(c) =>
               /\ pc'[c] \notin LoopStates \cup {"SigningAlgChecked", "Verified"}
               /\ out'[c] = <<>> /\ hist'[c] = <<>>
          /\ (pc[c] = "Start" /\ ~AkYieldsKey(c)) => pc'[c] = "Failed"
          /\ (pc[c] = "AkDecoded" /\ ~AkInTrustedSet(c)) => pc'[c] = "Failed"
          /\ (pc[c] = "AkTrusted" /\ ~AkSignHashInPolicy(c))
               => pc'[c] = "Failed"
     ]_vars
  /\ <>(\A c \in Calls : Done(c))

\* A call that failed its signing-algorithm check although its attestation
\* carries a quote that would verify.
C11_Witness ==
  \E c \in Calls :
    /\ pc[c] = "Failed" /\ AkInTrustedSet(c) /\ ~AkSignHashInPolicy(c)
    /\ attestation[c].quotes # <<>>
    /\ Verifies(c, attestation[c].quotes[1])
    /\ hist[c] = <<>>

(***************************************************************************)
(* C12: in the candidate loop the checks of one candidate run in the order *)
(* Single-Quote Verifier, Log Replay, bank-algorithm policy check: a bank  *)
(* is replayed only right after its own quote passed the verifier, and a   *)
(* bank's algorithm is checked against the policy only right after that    *)
(* quote verified and its bank replayed.                                   *)
(***************************************************************************)
C12_PerCandidateOrder ==
  \A c \in Calls :
    \A i \in 1..Len(hist[c]) :
      LET e == hist[c][i]
      IN /\ e.op = "VerifyQuote" =>
              (i = 1 \/ hist[c][i - 1].quote # e.quote)
         /\ e.op = "Replay" =>
              /\ i > 1
              /\ hist[c][i - 1] = [op |-> "VerifyQuote", quote |-> e.quote]
              /\ Verifies(c, e.quote)
         /\ e.op = "CheckPcrAlg" =>
              /\ i > 2
              /\ hist[c][i - 1] = [op |-> "Replay", quote |-> e.quote]
              /\ hist[c][i - 2] = [op |-> "VerifyQuote", quote |-> e.quote]
              /\ Verifies(c, e.quote) /\ Replays(c, e.quote)
              /\ i = Len(hist[c])

\* A second candidate went through all three checks after the first one
\* failed its replay.
C12_Witness ==
  \E c \in Calls :
    /\ Len(hist[c]) = 5
    /\ hist[c][2].op = "Replay"
    /\ hist[c][5].op = "CheckPcrAlg"

(***************************************************************************)
(* C13: the Trust Oracle trusts the candidate key if and only if the       *)
(* trusted list holds a key of the same family, RSA or ECDSA, that is      *)
(* equal to it: keys of different families are never equal, and a          *)
(* candidate of any other type is never trusted, even when the identical   *)
(* key is in the trusted list.                                             *)
(***************************************************************************)
TrustChecked(c) == pc[c] \in {"AkTrusted", "Failed"}

TrustedListOf(c) ==
  {opts[c].TrustedAKs[i] : i \in 1..Len(opts[c].TrustedAKs)}

C13_TrustOracle ==
  \A c \in Calls :
    TrustChecked(c) =>
      /\ pc[c] = "AkTrusted" <=>
           /\ akPubKey[c].family \in {"rsa", "ecdsa"}
           /\ \E t \in TrustedListOf(c) :
                t.family = akPubKey[c].family /\ t.id = akPubKey[c].id
      /\ pc[c] = "Failed" => ErrorKind(ret[c].err) = "UntrustedKey"
      /\ (\A t \in TrustedListOf(c) : t.family # akPubKey[c].family)
           => pc[c] = "Failed"
      /\ akPubKey[c].family \notin {"rsa", "ecdsa"} => pc[c] = "Failed"

\* A key of another type is refused although the list holds that very key,
\* beside an RSA key of the same number.
C13_Witness ==
  \E c \in Calls :
    /\ pc[c] = "Failed"
    /\ akPubKey[c] = OtherKey(1)
    /\ TrustedListOf(c) = {OtherKey(1), RsaKey(1)}

(***************************************************************************)
(* C14: every call terminates, and in one call the Single-Quote Verifier   *)
(* and Log Replay are each invoked at most once per policy algorithm, so   *)
(* at most three times each, and at most once per quote, however many      *)
(* quotes the attestation carries.                                         *)
(***************************************************************************)
\* The positions of hist[c] where capability op was invoked.
Invocations(c, op) == {i \in 1..Len(hist[c]) : hist[c][i].op = op}

BoundedWork(c) ==
  \A op \in {"VerifyQuote", "Replay"} :
    /\ Cardinality(Invocations(c, op)) <= 3
    /\ \A a \in QuoteAlgs :
         Cardinality({i \in Invocations(c, op) :
                        hist[c][i].quote.pcrs.hash = a})
           <= IF a \in PolicyAlgs THEN 1 ELSE 0
    /\ \A q \in QuotesOf(c) :
         Cardinality({i \in Invocations(c, op) : hist[c][i].quote = q}) <= 1

C14_TerminatesBoundedWork ==
  /\ <>(\A c \in Calls : Done(c))
  /\ [](\A c \in Calls : BoundedWork(c))

\* Three quotes were verified and replayed, none passing its replay, and
\* the call has returned.
C14_Witness ==
  \E c \in Calls :
    /\ Done(c)
    /\ Len(attestation[c].quotes) >= 3
    /\ Cardinality(Invocations(c, "VerifyQuote")) = 3
    /\ Cardinality(Invocations(c, "Replay")) = 3

(***************************************************************************)
(* C15: when the call returns a state replayed against the bank of         *)
(* algorithm A, it is the state of A's selected candidate, and every       *)
(* selected candidate of an algorithm preferred to A was handed to the     *)
(* Single-Quote Verifier before A's and failed the verifier or the replay; *)
(* no more-preferred selected candidate would have passed both.            *)
(***************************************************************************)
\* The position at which quote q was handed to the Single-Quote Verifier,
\* 0 when it was not.
TriedAt(c, q) ==
  IF \E i \in Invocations(c, "VerifyQuote") : hist[c][i].quote = q
  THEN CHOOSE i \in Invocations(c, "VerifyQuote") : hist[c][i].quote = q
  ELSE 0

C15_PreferenceOptimality ==
  \A c \in Calls :
    pc[c] = "Verified" =>
      LET A == ret[c].state.hash
      IN /\ A \in Selected(c)
         /\ ret[c].state = ReplayedState(c, FirstQuote(c, A))
         /\ TriedAt(c, FirstQuote(c, A)) > 0
         /\ \A b \in Selected(c) :
              Pref(b) < Pref(A) =>
                /\ TriedAt(c, FirstQuote(c, b)) > 0
                /\ TriedAt(c, FirstQuote(c, b)) < TriedAt(c, FirstQuote(c, A))
                /\ SoftFails(c, FirstQuote(c, b))
         /\ ~\E b \in Selected(c) :
               Pref(b) < Pref(A) /\ ~SoftFails(c, FirstQuote(c, b))

\* All three policy algorithms have a candidate; the first fails the
\* verifier, the second the replay, and the third's state is returned.
C15_Witness ==
  \E c \in Calls :
    /\ pc[c] = "Verified"
    /\ Selected(c) = PolicyAlgs
    /\ ~Verifies(c, FirstQuote(c, AlgSHA512))
    /\ Verifies(c, FirstQuote(c, AlgSHA384))
    /\ ~Replays(c, FirstQuote(c, AlgSHA384))
    /\ ret[c].state.hash = AlgSHA256

(***************************************************************************)
(* C16: of the quotes of one policy algorithm only the first in input      *)
(* order is ever handed to the Single-Quote Verifier (or to Log Replay); a *)
(* later one is not tried even when the first fails and it would pass. So  *)
(* a call whose AK pre-checks pass returns a state if and only if, for     *)
(* some policy algorithm, the first input quote of that algorithm passes   *)
(* both the verifier and the replay.                                       *)
(***************************************************************************)
\* The positions of the input quotes of algorithm a, in input order.
PositionsOf(c, a) ==
  {i \in 1..Len(attestation[c].quotes) : attestation[c].quotes[i].pcrs.hash = a}

C16_DuplicateShadowing ==
  \A c \in Calls :
    /\ \A i \in 1..Len(hist[c]) :
         /\ hist[c][i].quote.pcrs.hash \in Selected(c)
         /\ hist[c][i].quote = FirstQuote(c, hist[c][i].quote.pcrs.hash)
    /\ \A a \in PolicyAlgs :
         Cardinality({i \in Invocations(c, "VerifyQuote") :
                        hist[c][i].quote.pcrs.hash = a}) <= 1
    /\ (Done(c) /\ PreChecksPass(c)) =>
         (pc[c] = "Verified"
            <=> \E a \in Selected(c) : ~SoftFails(c, FirstQuote(c, a)))

\* Two quotes of one policy algorithm, the first failing and the second one
\* that would pass both: the call has failed with only the first tried.
C16_Witness ==
  \E c \in Calls :
    /\ pc[c] = "Failed" /\ PreChecksPass(c)
    /\ Len(attestation[c].quotes) = 2
    /\ \E a \in PolicyAlgs :
         /\ Cardinality(PositionsOf(c, a)) = 2
         /\ SoftFails(c, attestation[c].quotes[1])
         /\ ~SoftFails(c, attestation[c].quotes[2])
         /\ HandedSet(c, "VerifyQuote") = {attestation[c].quotes[1]}

==========================================================================
